---- MODULE Spec2Model ----
(***************************************************************************)
(* The authentication session of the Cookly client: the auth context       *)
(* (contexts/auth-context, src/unnamed/part_000), the API service          *)
(* (src/lib/api.ts) with its axios interceptors, and the helpers of        *)
(* ErrorHandler (lib/error-handler, held in src/app/about.tsx) they use.   *)
(*                                                                         *)
(* Every `await` of the source is a suspension point: one action of the    *)
(* model runs the code from one await to the next.                         *)
(***************************************************************************)
EXTENDS Integers, Sequences, FiniteSets, TLC

(***************************************************************************)
(* JavaScript values.  An object is a set of <<key, value>> pairs.         *)
(***************************************************************************)
Undefined == [t |-> "undefined"]
Null == [t |-> "null"]
Str(s) == [t |-> "string", s |-> s]
Obj(fields) == [t |-> "object", o |-> fields]
Num(n) == [t |-> "number", n |-> n]
NaN == [t |-> "number", nan |-> TRUE]
Bool(b) == [t |-> "boolean", b |-> b]
Arr(items) == [t |-> "array", a |-> items]
\* a string holding JSON text, the text kept as its sequence of tokens
Text(toks) == [t |-> "string", j |-> toks]
\* the axios response object handed to the caller of client.get/post/put
Response(body) == Obj({<<"data", body>>})

IsObject(v) == v.t = "object"
IsNullish(v) == v.t \in {"undefined", "null"}
TypeOf(v) == IF v.t \in {"null", "array"} THEN "object" ELSE v.t
IsNaN(v) == v.t = "number" /\ "nan" \in DOMAIN v
Truthy(v) ==
  CASE v.t \in {"object", "array"} -> TRUE
    [] v.t = "string" -> IF "s" \in DOMAIN v THEN v.s # "" ELSE v.j # <<>>
    [] v.t = "number" -> ~IsNaN(v) /\ v.n # 0
    [] v.t = "boolean" -> v.b
    [] OTHER -> FALSE

Keys(v) == {kv[1] : kv \in v.o}
\* v[k]: property access on a value that is not null or undefined
Get(v, k) ==
  IF IsObject(v) /\ k \in Keys(v)
  THEN (CHOOSE kv \in v.o : kv[1] = k)[2]
  ELSE Undefined
\* v?.k
OptGet(v, k) == IF IsNullish(v) THEN Undefined ELSE Get(v, k)
\* { ...a, ...b }
Spread(a, b) == Obj({kv \in a.o : kv[1] \notin Keys(b)} \cup b.o)

(***************************************************************************)
(* JSON.stringify and JSON.parse over the token form of JSON text.         *)
(***************************************************************************)
KeyOrder == <<"data", "token", "user", "name", "email", "password">>

RECURSIVE JSONstringify(_)
RECURSIVE StringifyMembers(_, _)
StringifyMembers(v, i) ==
  IF i > Len(KeyOrder) THEN <<>>
  ELSE LET k == KeyOrder[i]
           x == Get(v, k)
       IN  (IF k \in Keys(v) /\ x.t # "undefined"
            THEN <<k, ":">> \o JSONstringify(x) \o <<",">>
            ELSE <<>>) \o StringifyMembers(v, i + 1)
JSONstringify(v) ==
  CASE v.t = "null" -> <<"null">>
    [] v.t = "string" -> <<"str", v.s>>
    [] v.t = "object" -> <<"{">> \o StringifyMembers(v, 1) \o <<"}">>
    [] OTHER -> <<>>

ParseFail == [ok |-> FALSE, v |-> Undefined, n |-> 0]
RECURSIVE ParseValue(_, _)
RECURSIVE ParseMembers(_, _, _)
ParseMembers(toks, i, acc) ==
  IF i > Len(toks) THEN ParseFail
  ELSE IF toks[i] = "}" THEN [ok |-> TRUE, v |-> Obj(acc), n |-> i + 1]
  ELSE IF i + 1 <= Len(toks) /\ toks[i + 1] = ":"
  THEN LET r == ParseValue(toks, i + 2)
       IN  IF r.ok /\ r.n <= Len(toks) /\ toks[r.n] = ","
           THEN ParseMembers(toks, r.n + 1,
                             {kv \in acc : kv[1] # toks[i]} \cup {<<toks[i], r.v>>})
           ELSE ParseFail
  ELSE ParseFail
ParseValue(toks, i) ==
  IF i > Len(toks) THEN ParseFail
  ELSE IF toks[i] = "null" THEN [ok |-> TRUE, v |-> Null, n |-> i + 1]
  ELSE IF toks[i] = "str" /\ i + 1 <= Len(toks)
  THEN [ok |-> TRUE, v |-> Str(toks[i + 1]), n |-> i + 2]
  ELSE IF toks[i] = "{" THEN ParseMembers(toks, i + 1, {})
  ELSE ParseFail
\* [ok, v]: ok = FALSE stands for the SyntaxError JSON.parse throws
JSONparse(toks) ==
  LET r == ParseValue(toks, 1)
  IN  IF r.ok /\ r.n = Len(toks) + 1 THEN [ok |-> TRUE, v |-> r.v]
      ELSE [ok |-> FALSE, v |-> Undefined]
(***************************************************************************)
(* Errors.  response = 0: the error carries no HTTP response; code = "":   *)
(* the error object has no code property.                                  *)
(***************************************************************************)
Err(name, code, statusCode, response) ==
  [name |-> name, code |-> code, statusCode |-> statusCode, response |-> response]
NoError == Err("", "", 0, 0)
\* what axios rejects with: a status outside 2xx, a dropped connection, a timeout
AxiosError(status) == Err("AxiosError", "ERR_BAD_RESPONSE", 0, status)
AxiosNetworkError == Err("AxiosError", "ERR_NETWORK", 0, 0)
AxiosTimeout == Err("AxiosError", "ECONNABORTED", 0, 0)
\* what AsyncStorage rejects with
StorageError == Err("Error", "", 0, 0)
AppError(code) == Err("AppError", code, 0, 0)
NetworkError == Err("NetworkError", "", 0, 0)
ValidationError == Err("ValidationError", "", 0, 0)
AuthenticationError == Err("AuthenticationError", "", 0, 0)
ServerError(status) == Err("ServerError", "", status, 0)

mapAxiosError(error) ==
  IF error.response = 0
  THEN IF error.code = "ECONNABORTED" THEN AppError("") ELSE NetworkError
  ELSE CASE error.response = 400 -> ValidationError
         [] error.response = 401 -> AuthenticationError
         [] error.response = 403 -> AuthenticationError
         [] error.response = 404 -> AppError("")
         [] error.response = 409 -> ValidationError
         [] error.response = 429 -> AppError("")
         [] error.response \in {500, 502, 503, 504} -> ServerError(error.response)
         [] OTHER -> AppError("")

\* instanceof over the error classes, then the name test; the ErrorType returned
getErrorType(error) ==
  CASE error.name = "NetworkError" -> "NETWORK"
    [] error.name = "ValidationError" -> "VALIDATION"
    [] error.name = "AuthenticationError" -> "AUTHENTICATION"
    [] error.name = "ServerError" -> "SERVER"
    [] error.name = "TimeoutError" -> "TIMEOUT"
    [] OTHER -> "UNKNOWN"

safeDestructure(obj, defaultValues) ==
  IF ~Truthy(obj) \/ TypeOf(obj) # "object" THEN defaultValues
  ELSE Spread(defaultValues, obj)

\* the fields validateRequired collects in missingFields
missingFields(obj, requiredFields) ==
  {f \in requiredFields :
     LET value == Get(obj, f)
     IN  value.t = "null" \/ value.t = "undefined" \/ value = Str("")}

\* TRUE when validateRequired returns, FALSE when it throws ValidationError
validateRequired(obj, requiredFields) ==
  /\ Truthy(obj) /\ TypeOf(obj) = "object"
  /\ \A f \in requiredFields :
       LET value == Get(obj, f)
       IN  ~(value.t = "null" \/ value.t = "undefined" \/ value = Str(""))

\* String(value) of a value that is no string
RECURSIVE NumberToString(_)
NumberToString(n) ==
  IF n < 10 THEN <<"0", "1", "2", "3", "4", "5", "6", "7", "8", "9">>[n + 1]
  ELSE NumberToString(n \div 10) \o NumberToString(n % 10)
RECURSIVE JoinItems(_, _)
StringOf(v) ==
  CASE v.t = "number" -> IF IsNaN(v) THEN "NaN" ELSE NumberToString(v.n)
    [] v.t = "boolean" -> IF v.b THEN "true" ELSE "false"
    [] v.t = "array" -> JoinItems(v.a, 1)
    [] v.t = "object" -> "[object Object]"
    [] v.t = "string" -> v.s
    [] OTHER -> ""
JoinItems(items, i) ==
  IF i > Len(items) THEN ""
  ELSE StringOf(items[i]) \o (IF i < Len(items) THEN "," ELSE "") \o JoinItems(items, i + 1)

\* parseFloat and toLowerCase over the strings the model passes
parseFloat(s) ==
  CASE s \in {"12", "12abc"} -> Num(12)
    [] s = "0" -> Num(0)
    [] OTHER -> NaN
toLowerCase(s) ==
  CASE s \in {"TRUE", "True"} -> "true"
    [] s = "USER@X.com " -> "user@x.com "
    [] OTHER -> s

safeArray(value, fallback) ==
  IF value.t = "array" THEN value
  ELSE IF IsNullish(value) THEN fallback
  ELSE Arr(<<value>>)

safeString(value, fallback) ==
  IF value.t = "string" THEN value
  ELSE IF IsNullish(value) THEN fallback
  ELSE Str(StringOf(value))

safeNumber(value, fallback) ==
  IF value.t = "number" /\ ~IsNaN(value) THEN value
  ELSE IF value.t = "string" /\ ~IsNaN(parseFloat(value.s)) THEN parseFloat(value.s)
  ELSE fallback

\* mutant: no conversion of strings and numbers
safeBooleanStrict(value, fallback) ==
  IF value.t = "boolean" THEN value ELSE fallback

safeBoolean(value, fallback) ==
  IF value.t = "boolean" THEN value
  ELSE IF IsNullish(value) THEN fallback
  ELSE IF value.t = "string" THEN Bool(toLowerCase(value.s) = "true")
  ELSE IF value.t = "number" THEN Bool(IsNaN(value) \/ value.n # 0)
  ELSE fallback

\* [ok, v]: ok = FALSE stands for the ValidationError it throws
extractResponseData(response, expectedDataType) ==
  IF ~Truthy(response) THEN [ok |-> FALSE, v |-> Undefined]
  ELSE LET body == Get(response, "data")
           data == IF Truthy(body) /\ Truthy(OptGet(body, "data")) THEN Get(body, "data")
                   ELSE IF Truthy(body) THEN body
                   ELSE response
       IN  IF IsNullish(data) THEN [ok |-> FALSE, v |-> Undefined]
           ELSE IF expectedDataType # "" /\ TypeOf(data) # expectedDataType
           THEN [ok |-> FALSE, v |-> Undefined]
           ELSE [ok |-> TRUE, v |-> data]
(***************************************************************************)
(* The data of the model: profiles, tokens, what the server may answer.    *)
(***************************************************************************)
MaxOps == 2

U1 == Obj({<<"name", Str("Old")>>, <<"email", Str("e")>>})
U2 == Obj({<<"name", Str("New")>>, <<"email", Str("e")>>})
OldToken == Str("t1")
NewToken == Str("t2")
\* ApiResponse<T>: the payload under "data"
Wrapped(payload) == Obj({<<"data", payload>>})
AuthOk == Wrapped(Obj({<<"token", NewToken>>, <<"user", U1>>}))
AuthNoUser == Wrapped(Obj({<<"token", NewToken>>}))
AuthNoToken == Wrapped(Obj({<<"user", U1>>}))
NotJson == Str("<html>")
WellFormedAuth == {AuthOk}
AuthBodies == {AuthOk, AuthNoUser, AuthNoToken, NotJson}
\* GET /auth/me: ApiResponse<User>, or the {user} shape
MeBodies == {Wrapped(U1), Wrapped(Obj({<<"user", U1>>})), NotJson, Null}
ProfileBodies == {Wrapped(U2), NotJson}
OtherBodies == {Wrapped(Obj({}))}
\* what a request can fail with: any status outside 2xx, or no response at all
RawFailures ==
  {AxiosError(status) : status \in {400, 401, 402, 403, 404, 405, 408, 409, 418,
                                    422, 429, 500, 501, 502, 503, 504}}
    \cup {AxiosNetworkError, AxiosTimeout, Err("AxiosError", "", 0, 0)}
HttpFailures ==
  {AxiosError(400), AxiosError(401), AxiosError(500), AxiosNetworkError, AxiosTimeout}

ValidCredentials == Obj({<<"email", Str("e")>>, <<"password", Str("p")>>})
NoEmail == Obj({<<"email", Str("")>>, <<"password", Str("p")>>})
NoPassword == Obj({<<"email", Str("e")>>})
\* an address as typed: upper case, a trailing blank
TypedCredentials == Obj({<<"email", Str("USER@X.com ")>>, <<"password", Str("p")>>})
LoginRequests == {ValidCredentials, TypedCredentials, NoEmail, NoPassword, Undefined}
RegisterRequests == {Spread(ValidCredentials, Obj({<<"name", Str("Old")>>})), ValidCredentials}
PasswordForm(currentPassword, newPassword) ==
  Obj({<<"currentPassword", Str(currentPassword)>>, <<"newPassword", Str(newPassword)>>})
PasswordForms ==
  {PasswordForm(c, n) : c \in {"", "secret"}, n \in {"", "12345", "123456", "1234567"}}
ProfileUpdates == {Obj({<<"name", Str("New")>>}), Obj({}), Null}

\* the two keys of config.STORAGE_KEYS
AUTH_TOKEN == "auth_token"
USER_DATA == "user_data"

AuthOps == {"login", "register"}
UserOps == {"login", "register", "logout", "update", "api"}
\* the submit handler of the change-password screen
ScreenOps == {"password"}
\* a catch block classifying what it caught; a call of ErrorHandler.withRetry
ErrorOps == {"classify", "retry"}
\* one call of a helper of ErrorHandler
HelperOps == {"helper"}
Procs == UserOps \cup {"start"} \cup ScreenOps \cup ErrorOps \cup HelperOps

VARIABLES
  storage,    \* AsyncStorage: key -> Null (no item) or the string stored
  user,       \* AuthProvider: useState<User | null>
  isLoading,  \* AuthProvider: useState(true)
  pc,         \* where each operation is suspended
  loc,        \* the locals an operation carries across its awaits
  wrote,      \* the keys a login/register in flight has written so far
  ops,        \* how many operations the UI has started
  ev          \* the operation the last step settled, and how (NoEvent: none)
vars == <<storage, user, isLoading, pc, loc, wrote, ops, ev>>

isAuthenticated == Truthy(user)
Present(k) == storage[k] # Null

\* arg: the argument of the call; sent, body: whether a request left, and its
\* body; auth: the token of its Authorization header; stale: a logout()
\* returned while this operation was in flight; resp: the body of the 2xx
\* answer to its request
LocInit == [http |-> 0, val |-> Undefined, err |-> NoError, retryCount |-> 0,
            bearer |-> FALSE, arg |-> Undefined, sent |-> FALSE, body |-> Undefined,
            auth |-> Null, stale |-> FALSE, resp |-> Undefined]
\* the locals of withRetry; thrown: what the operation has thrown so far;
\* calls: how often it was invoked; delay: the timer withRetry waits on;
\* delays: the timers it has set so far
RetryInit == [maxRetries |-> 0, attempt |-> 0, lastError |-> NoError, delay |-> 0,
              calls |-> 0, thrown |-> <<>>, delays |-> <<>>, result |-> "none"]
\* the request interceptor: the request carries "Bearer <token>" when the store
\* holds a token; the server answers 2xx on a protected route only to those
Request == [LocInit EXCEPT !.bearer = Truthy(storage[AUTH_TOKEN]), !.sent = TRUE,
                          !.auth = storage[AUTH_TOKEN]]
NoEvent == [proc |-> "none", res |-> "none", http |-> 0, err |-> NoError,
            arg |-> Undefined, sent |-> FALSE, auth |-> Null, stale |-> FALSE,
            resp |-> Undefined, wrote |-> {}]
Settled(p, res) ==
  [proc |-> p, res |-> res, http |-> loc[p].http, err |-> loc[p].err,
   arg |-> loc[p].arg, sent |-> loc[p].sent, auth |-> loc[p].auth,
   stale |-> loc[p].stale, resp |-> loc[p].resp,
   wrote |-> IF p \in AuthOps THEN wrote[p] ELSE {}]

\* what the durable store may hold when the app starts
CleanStores ==
  { [auth_token |-> Null, user_data |-> Null],
    [auth_token |-> OldToken, user_data |-> Text(JSONstringify(U1))],
    [auth_token |-> OldToken, user_data |-> Text(JSONstringify(Obj({<<"user", U1>>})))] }
\* a login cut short after its first write; a user_data that is no JSON
DamagedStores ==
  { [auth_token |-> OldToken, user_data |-> Null],
    [auth_token |-> OldToken, user_data |-> Text(<<"{">>)] }

InitWith(stores) ==
  /\ storage \in stores
  /\ user = Null
  /\ isLoading = TRUE
  /\ pc = [p \in Procs |-> IF p = "start" THEN "getToken" ELSE "idle"]
  /\ loc = [p \in Procs |-> IF p = "retry" THEN RetryInit ELSE LocInit]
  /\ wrote = [p \in AuthOps |-> {}]
  /\ ops = 0
  /\ ev = NoEvent
Init == InitWith(CleanStores \cup DamagedStores)

Idle(p) == pc[p] \in {"idle", "done"}
AllIdle == \A p \in Procs : Idle(p)
Goto(p, l) == pc' = [pc EXCEPT ![p] = l]
\* The UI starts an operation while at most one other operation (the startup
\* check included) is still in flight: the model covers every interleaving of
\* two operations, and none of three.
InFlight == {q \in Procs : ~Idle(q)}
CanStart(p) ==
  /\ pc[p] = "idle"
  /\ ops < MaxOps
  /\ \A q, r \in InFlight : q = r

(***************************************************************************)
(* The axios client: the response interceptor of ApiService.               *)
(***************************************************************************)
\* the request of p fails with the axios error e
HttpFail(p, e) ==
  /\ pc[p] = "net"
  /\ LET mappedError == mapAxiosError(e)
     IN  IF e.response = 401
         THEN /\ Goto(p, "i401_token")
              /\ loc' = [loc EXCEPT ![p].http = 401, ![p].err = mappedError]
         ELSE IF mappedError.code = "NETWORK_ERROR" /\ loc[p].retryCount < 2
         THEN /\ Goto(p, "net")
              /\ loc' = [loc EXCEPT ![p].retryCount = @ + 1]
         ELSE /\ Goto(p, "threw")
              /\ loc' = [loc EXCEPT ![p].http = e.response, ![p].err = mappedError]
  /\ ev' = NoEvent
  /\ UNCHANGED <<storage, user, isLoading, wrote, ops>>

Interceptor401Token(p) ==
  /\ pc[p] = "i401_token"
  /\ storage' = [storage EXCEPT ![AUTH_TOKEN] = Null]
  /\ Goto(p, "i401_user")
  /\ ev' = NoEvent
  /\ UNCHANGED <<user, isLoading, loc, wrote, ops>>

Interceptor401User(p) ==
  /\ pc[p] = "i401_user"
  /\ storage' = [storage EXCEPT ![USER_DATA] = Null]
  /\ Goto(p, "threw")
  /\ ev' = NoEvent
  /\ UNCHANGED <<user, isLoading, loc, wrote, ops>>

\* a removeItem of the interceptor rejects: the interceptor rejects with that error
Interceptor401Fails(p) ==
  /\ pc[p] \in {"i401_token", "i401_user"}
  /\ Goto(p, "threw")
  /\ loc' = [loc EXCEPT ![p].err = StorageError]
  /\ ev' = NoEvent
  /\ UNCHANGED <<storage, user, isLoading, wrote, ops>>
(***************************************************************************)
(* ApiService.login / register under AuthProvider.login / register.        *)
(***************************************************************************)
\* mutant: the profile is written before the token
PersistOrderProfileFirst == <<USER_DATA, AUTH_TOKEN>>
\* the order of the two setItem calls of login and register
PersistOrder == <<AUTH_TOKEN, USER_DATA>>

RequiredFields(p) ==
  IF p = "login" THEN {"email", "password"} ELSE {"email", "password", "name"}
Defaults(p) == Obj({<<f, Str("")>> : f \in RequiredFields(p)})

\* setIsLoading(true), the validation of the input, the request is sent
LoginStart(p, credentials) ==
  /\ CanStart(p)
  /\ isLoading' = TRUE
  /\ ops' = ops + 1
  /\ wrote' = [wrote EXCEPT ![p] = {}]
  /\ LET safeCredentials == safeDestructure(credentials, Defaults(p))
     IN  IF validateRequired(safeCredentials, RequiredFields(p))
         THEN /\ Goto(p, "net")
              /\ loc' = [loc EXCEPT ![p] = [Request EXCEPT !.arg = credentials,
                                                          !.body = safeCredentials]]
         ELSE /\ Goto(p, "threw")
              /\ loc' = [loc EXCEPT ![p] = [LocInit EXCEPT !.arg = credentials,
                                                          !.err = ValidationError]]
  /\ ev' = NoEvent
  /\ UNCHANGED <<storage, user>>

\* the 2xx answer: extraction of the payload, the token check
LoginResponse(p, body) ==
  /\ pc[p] = "net"
  /\ LET authData == extractResponseData(Response(body), "object")
         token == safeString(Get(authData.v, "token"), Str(""))
     IN  IF ~authData.ok
         THEN Goto(p, "threw") /\ loc' = [loc EXCEPT ![p].http = 200, ![p].err = ValidationError]
         ELSE IF ~Truthy(token)
         THEN Goto(p, "threw")
              /\ loc' = [loc EXCEPT ![p].http = 200, ![p].err = AppError("SERVER_ERROR")]
         ELSE Goto(p, "persist1") /\ loc' = [loc EXCEPT ![p].http = 200, ![p].val = authData.v]
  /\ ev' = NoEvent
  /\ UNCHANGED <<storage, user, isLoading, wrote, ops>>

PersistValue(authData, key) ==
  IF key = AUTH_TOKEN THEN safeString(Get(authData, "token"), Str(""))
  ELSE Text(JSONstringify(safeDestructure(Get(authData, "user"), Obj({}))))

\* one AsyncStorage.setItem of login/register completes
LoginPersist(p) ==
  /\ pc[p] \in {"persist1", "persist2"}
  /\ LET key == PersistOrder[IF pc[p] = "persist1" THEN 1 ELSE 2]
     IN  /\ storage' = [storage EXCEPT ![key] = PersistValue(loc[p].val, key)]
         /\ wrote' = [wrote EXCEPT ![p] = @ \cup {key}]
  /\ Goto(p, IF pc[p] = "persist1" THEN "persist2" ELSE "ret")
  /\ ev' = NoEvent
  /\ UNCHANGED <<user, isLoading, loc, ops>>

\* a setItem of login/register rejects
LoginPersistFails(p) ==
  /\ pc[p] \in {"persist1", "persist2"}
  /\ Goto(p, "threw")
  /\ loc' = [loc EXCEPT ![p].err = StorageError]
  /\ ev' = NoEvent
  /\ UNCHANGED <<storage, user, isLoading, wrote, ops>>

\* AuthProvider: setUser(authData.user); finally setIsLoading(false)
LoginReturn(p) ==
  /\ pc[p] = "ret"
  /\ user' = Get(loc[p].val, "user")
  /\ isLoading' = FALSE
  /\ ev' = Settled(p, "resolved")
  /\ Goto(p, "idle")
  /\ loc' = [loc EXCEPT ![p] = LocInit]
  /\ wrote' = [wrote EXCEPT ![p] = {}]
  /\ UNCHANGED <<storage, ops>>

\* ApiService catch: throw mapAxiosError(error); AuthProvider: rethrow, finally
LoginThrow(p) ==
  /\ pc[p] = "threw"
  /\ isLoading' = FALSE
  /\ ev' = [Settled(p, "rejected") EXCEPT !.err = mapAxiosError(loc[p].err)]
  /\ Goto(p, "idle")
  /\ loc' = [loc EXCEPT ![p] = LocInit]
  /\ wrote' = [wrote EXCEPT ![p] = {}]
  /\ UNCHANGED <<storage, user, ops>>

(***************************************************************************)
(* ApiService.logout under AuthProvider.logout; p = "start" is the logout  *)
(* that checkAuthState awaits in its catch blocks.                         *)
(***************************************************************************)
LogoutStart ==
  /\ CanStart("logout")
  /\ ops' = ops + 1
  /\ Goto("logout", "lo_token")
  /\ loc' = [loc EXCEPT !["logout"] = LocInit]
  /\ ev' = NoEvent
  /\ UNCHANGED <<storage, user, isLoading, wrote>>

LogoutRemoveToken(p) ==
  /\ pc[p] = "lo_token"
  /\ storage' = [storage EXCEPT ![AUTH_TOKEN] = Null]
  /\ Goto(p, "lo_user")
  /\ ev' = NoEvent
  /\ UNCHANGED <<user, isLoading, loc, wrote, ops>>

\* mutant: logout forgets the second removeItem
LogoutRemoveUserSkipped(p) ==
  /\ pc[p] = "lo_user"
  /\ Goto(p, "lo_ret")
  /\ ev' = NoEvent
  /\ UNCHANGED <<storage, user, isLoading, loc, wrote, ops>>

LogoutRemoveUser(p) ==
  /\ pc[p] = "lo_user"
  /\ storage' = [storage EXCEPT ![USER_DATA] = Null]
  /\ Goto(p, "lo_ret")
  /\ ev' = NoEvent
  /\ UNCHANGED <<user, isLoading, loc, wrote, ops>>

\* a removeItem rejects: the catch of ApiService.logout logs it, logout returns
LogoutRemoveFails(p) ==
  /\ pc[p] \in {"lo_token", "lo_user"}
  /\ Goto(p, "lo_ret")
  /\ loc' = [loc EXCEPT ![p].err = StorageError]
  /\ ev' = NoEvent
  /\ UNCHANGED <<storage, user, isLoading, wrote, ops>>

\* the locals once the logout() that p runs has returned: the operations still
\* in flight are marked as overtaken by a logout
LogoutReturned(p) ==
  [q \in Procs |->
     IF q = p THEN (IF p = "start" THEN loc[p] ELSE LocInit)
     ELSE IF ~Idle(q) THEN [loc[q] EXCEPT !.stale = TRUE]
     ELSE loc[q]]

\* mutant: no catch around the removals, the failure reaches the caller of
\* logout and setUser(null) is skipped
LogoutReturnRethrows(p) ==
  /\ pc[p] = "lo_ret"
  /\ user' = IF loc[p].err = StorageError THEN user ELSE Null
  /\ IF p = "start"
     THEN Goto(p, "finally") /\ ev' = NoEvent
     ELSE /\ Goto(p, "idle")
          /\ ev' = Settled(p, IF loc[p].err = StorageError THEN "rejected" ELSE "resolved")
  /\ loc' = LogoutReturned(p)
  /\ UNCHANGED <<storage, isLoading, wrote, ops>>

\* AuthProvider.logout after its await: setUser(null)
LogoutReturn(p) ==
  /\ pc[p] = "lo_ret"
  /\ user' = Null
  /\ IF p = "start"
     THEN Goto(p, "finally") /\ ev' = NoEvent
     ELSE /\ Goto(p, "idle")
          /\ ev' = Settled(p, "resolved")
  /\ loc' = LogoutReturned(p)
  /\ UNCHANGED <<storage, isLoading, wrote, ops>>
(***************************************************************************)
(* AuthProvider.checkAuthState, run once by the effect at mount.           *)
(***************************************************************************)
StartFinish ==
  /\ isLoading' = FALSE
  /\ Goto("start", "done")
  /\ ev' = Settled("start", "resolved")
  /\ loc' = [loc EXCEPT !["start"] = LocInit]

StartGetToken ==
  /\ pc["start"] = "getToken"
  /\ loc' = [loc EXCEPT !["start"].val = storage[AUTH_TOKEN]]
  /\ Goto("start", "getUser")
  /\ ev' = NoEvent
  /\ UNCHANGED <<storage, user, isLoading, wrote, ops>>

\* the second getItem resolves; parse, optimistic setUser, getCurrentUser is sent
StartGetUser ==
  /\ pc["start"] = "getUser"
  /\ LET token == loc["start"].val
         userData == storage[USER_DATA]
     IN  IF Truthy(token) /\ Truthy(userData)
         THEN LET parsedUser == JSONparse(userData.j)
              IN  IF parsedUser.ok
                  THEN /\ user' = OptGet(parsedUser.v, "user")
                       /\ Goto("start", "net")
                       /\ loc' = [loc EXCEPT !["start"] =
                                    [Request EXCEPT !.stale = loc["start"].stale]]
                       /\ ev' = NoEvent
                       /\ UNCHANGED isLoading
                  ELSE /\ Goto("start", "lo_token")
                       /\ ev' = NoEvent
                       /\ UNCHANGED <<user, isLoading, loc>>
         ELSE StartFinish /\ UNCHANGED user
  /\ UNCHANGED <<storage, wrote, ops>>

\* a getItem rejects: the outer catch awaits logout()
StartGetItemFails ==
  /\ pc["start"] \in {"getToken", "getUser"}
  /\ Goto("start", "lo_token")
  /\ loc' = [loc EXCEPT !["start"].err = StorageError]
  /\ ev' = NoEvent
  /\ UNCHANGED <<storage, user, isLoading, wrote, ops>>

\* ApiService.getCurrentUser: the 2xx answer
MeResponse(body) ==
  /\ pc["start"] = "net"
  /\ loc["start"].bearer
  /\ LET currentUser == extractResponseData(Response(body), "object")
     IN  IF currentUser.ok
         THEN /\ Goto("start", "me_ret")
              /\ loc' = [loc EXCEPT !["start"].http = 200, !["start"].resp = body,
                                    !["start"].val = currentUser.v]
         ELSE /\ Goto("start", "threw")
              /\ loc' = [loc EXCEPT !["start"].http = 200, !["start"].resp = body,
                                    !["start"].err = ValidationError]
  /\ ev' = NoEvent
  /\ UNCHANGED <<storage, user, isLoading, wrote, ops>>

\* setUser(currentUser); the setItem of user_data is started
StartVerified ==
  /\ pc["start"] = "me_ret"
  /\ user' = loc["start"].val
  /\ Goto("start", "me_save")
  /\ ev' = NoEvent
  /\ UNCHANGED <<storage, isLoading, loc, wrote, ops>>

StartSaveUser ==
  /\ pc["start"] = "me_save"
  /\ storage' = [storage EXCEPT ![USER_DATA] = Text(JSONstringify(loc["start"].val))]
  /\ StartFinish
  /\ UNCHANGED <<user, wrote, ops>>

\* the setItem rejects: the inner catch awaits logout()
StartSaveFails ==
  /\ pc["start"] = "me_save"
  /\ Goto("start", "lo_token")
  /\ loc' = [loc EXCEPT !["start"].err = StorageError]
  /\ ev' = NoEvent
  /\ UNCHANGED <<storage, user, isLoading, wrote, ops>>

\* mutant: the inner catch swallows the error without logout()
StartCatchNoLogout ==
  /\ pc["start"] = "threw"
  /\ Goto("start", "finally")
  /\ ev' = NoEvent
  /\ UNCHANGED <<storage, user, isLoading, loc, wrote, ops>>

\* getCurrentUser rejected: the inner catch awaits logout()
StartCatch ==
  /\ pc["start"] = "threw"
  /\ Goto("start", "lo_token")
  /\ ev' = NoEvent
  /\ UNCHANGED <<storage, user, isLoading, loc, wrote, ops>>

\* mutant: no finally block, isLoading stays as it was after a logout()
StartFinallyMissing ==
  /\ pc["start"] = "finally"
  /\ Goto("start", "done")
  /\ ev' = Settled("start", "resolved")
  /\ loc' = [loc EXCEPT !["start"] = LocInit]
  /\ UNCHANGED <<storage, user, isLoading, wrote, ops>>

StartFinally ==
  /\ pc["start"] = "finally"
  /\ StartFinish
  /\ UNCHANGED <<storage, user, wrote, ops>>

(***************************************************************************)
(* ApiService.updateProfile under AuthProvider.updateUser.                 *)
(***************************************************************************)
UpdateStart(userData) ==
  /\ CanStart("update")
  /\ ops' = ops + 1
  /\ LET safeUserData == safeDestructure(userData, Obj({}))
     IN  IF Keys(safeUserData) = {}
         THEN /\ Goto("update", "threw")
              /\ loc' = [loc EXCEPT !["update"] =
                           [LocInit EXCEPT !.arg = userData,
                                           !.err = AppError("VALIDATION_ERROR")]]
         ELSE /\ Goto("update", "net")
              /\ loc' = [loc EXCEPT !["update"] =
                           [Request EXCEPT !.arg = userData, !.body = safeUserData]]
  /\ ev' = NoEvent
  /\ UNCHANGED <<storage, user, isLoading, wrote>>

UpdateResponse(body) ==
  /\ pc["update"] = "net"
  /\ loc["update"].bearer
  /\ LET updatedUser == extractResponseData(Response(body), "object")
     IN  IF updatedUser.ok
         THEN /\ Goto("update", "up_save")
              /\ loc' = [loc EXCEPT !["update"].http = 200, !["update"].val = updatedUser.v]
         ELSE /\ Goto("update", "threw")
              /\ loc' = [loc EXCEPT !["update"].http = 200, !["update"].err = ValidationError]
  /\ ev' = NoEvent
  /\ UNCHANGED <<storage, user, isLoading, wrote, ops>>

UpdateSaveUser ==
  /\ pc["update"] = "up_save"
  /\ storage' = [storage EXCEPT ![USER_DATA] = Text(JSONstringify(loc["update"].val))]
  /\ Goto("update", "up_ret")
  /\ ev' = NoEvent
  /\ UNCHANGED <<user, isLoading, loc, wrote, ops>>

UpdateSaveFails ==
  /\ pc["update"] = "up_save"
  /\ Goto("update", "threw")
  /\ loc' = [loc EXCEPT !["update"].err = StorageError]
  /\ ev' = NoEvent
  /\ UNCHANGED <<storage, user, isLoading, wrote, ops>>

\* mutant: updateUser drops the profile it was returned
UpdateReturnKeepsUser ==
  /\ pc["update"] = "up_ret"
  /\ ev' = Settled("update", "resolved")
  /\ Goto("update", "idle")
  /\ loc' = [loc EXCEPT !["update"] = LocInit]
  /\ UNCHANGED <<storage, user, isLoading, wrote, ops>>

\* AuthProvider.updateUser after its await: setUser(updatedUser)
UpdateReturn ==
  /\ pc["update"] = "up_ret"
  /\ user' = loc["update"].val
  /\ ev' = Settled("update", "resolved")
  /\ Goto("update", "idle")
  /\ loc' = [loc EXCEPT !["update"] = LocInit]
  /\ UNCHANGED <<storage, isLoading, wrote, ops>>

UpdateThrow ==
  /\ pc["update"] = "threw"
  /\ ev' = [Settled("update", "rejected") EXCEPT !.err = mapAxiosError(loc["update"].err)]
  /\ Goto("update", "idle")
  /\ loc' = [loc EXCEPT !["update"] = LocInit]
  /\ UNCHANGED <<storage, user, isLoading, wrote, ops>>

(***************************************************************************)
(* Any other call through the client that carries the bearer token         *)
(* (getSavedRecipes, generateRecipe, ...), made by a screen.               *)
(***************************************************************************)
ApiStart ==
  /\ CanStart("api")
  /\ ops' = ops + 1
  /\ Goto("api", "net")
  /\ loc' = [loc EXCEPT !["api"] = Request]
  /\ ev' = NoEvent
  /\ UNCHANGED <<storage, user, isLoading, wrote>>

ApiResponse(body) ==
  /\ pc["api"] = "net"
  /\ loc["api"].bearer
  /\ LET data == extractResponseData(Response(body), "object")
     IN  ev' = [Settled("api", IF data.ok THEN "resolved" ELSE "rejected")
                  EXCEPT !.http = 200]
  /\ Goto("api", "idle")
  /\ loc' = [loc EXCEPT !["api"] = LocInit]
  /\ UNCHANGED <<storage, user, isLoading, wrote, ops>>

ApiThrow ==
  /\ pc["api"] = "threw"
  /\ ev' = [Settled("api", "rejected") EXCEPT !.err = mapAxiosError(loc["api"].err)]
  /\ Goto("api", "idle")
  /\ loc' = [loc EXCEPT !["api"] = LocInit]
  /\ UNCHANGED <<storage, user, isLoading, wrote, ops>>

(***************************************************************************)
(* ChangePasswordScreen.onSubmit.  apiService.changePassword is the PUT     *)
(* /auth/change-password through the same client; the screen's isLoading is  *)
(* a state of the screen, not the AuthProvider's.                            *)
(***************************************************************************)
\* mutant: the form is sent whatever the length of the new password
PasswordSubmitUnchecked(data) ==
  /\ pc["password"] = "idle"
  /\ ops < MaxOps
  /\ ops' = ops + 1
  /\ Goto("password", "net")
  /\ loc' = [loc EXCEPT !["password"] = [Request EXCEPT !.arg = data, !.body = data]]
  /\ ev' = NoEvent
  /\ UNCHANGED <<storage, user, isLoading, wrote>>

PasswordSubmit(data) ==
  /\ pc["password"] = "idle"
  /\ ops < MaxOps
  /\ ops' = ops + 1
  /\ IF Len(Get(data, "newPassword").s) < 6
     THEN /\ ev' = [NoEvent EXCEPT !.proc = "password", !.res = "resolved", !.arg = data]
          /\ UNCHANGED <<pc, loc>>
     ELSE /\ Goto("password", "net")
          /\ loc' = [loc EXCEPT !["password"] = [Request EXCEPT !.arg = data, !.body = data]]
          /\ ev' = NoEvent
  /\ UNCHANGED <<storage, user, isLoading, wrote>>

\* the 2xx answer: the success alert; or the catch: the failure alert
PasswordSettle ==
  /\ \/ pc["password"] = "net" /\ loc["password"].bearer
        /\ ev' = [Settled("password", "resolved") EXCEPT !.http = 200]
     \/ pc["password"] = "threw"
        /\ ev' = Settled("password", "resolved")
  /\ Goto("password", "idle")
  /\ loc' = [loc EXCEPT !["password"] = LocInit]
  /\ UNCHANGED <<storage, user, isLoading, wrote, ops>>

(***************************************************************************)
(* ErrorHandler: the classification of a caught failure, and withRetry.    *)
(***************************************************************************)
\* a catch block holds the failure of a request
ClassifyInit ==
  /\ storage \in CleanStores
  /\ user = Null
  /\ isLoading = TRUE
  /\ pc = [p \in Procs |-> IF p = "classify" THEN "caught"
                           ELSE IF p = "start" THEN "getToken" ELSE "idle"]
  /\ \E error \in RawFailures :
       loc = [p \in Procs |-> IF p = "retry" THEN RetryInit
                              ELSE IF p = "classify" THEN [LocInit EXCEPT !.arg = error]
                              ELSE LocInit]
  /\ wrote = [p \in AuthOps |-> {}]
  /\ ops = 0
  /\ ev = NoEvent

ClassifyMap ==
  /\ pc["classify"] = "caught"
  /\ loc' = [loc EXCEPT !["classify"].err = mapAxiosError(loc["classify"].arg),
                        !["classify"].http = loc["classify"].arg.response]
  /\ Goto("classify", "mapped")
  /\ ev' = NoEvent
  /\ UNCHANGED <<storage, user, isLoading, wrote, ops>>

ClassifyType ==
  /\ pc["classify"] = "mapped"
  /\ loc' = [loc EXCEPT !["classify"].val = Str(getErrorType(loc["classify"].err))]
  /\ Goto("classify", "typed")
  /\ ev' = NoEvent
  /\ UNCHANGED <<storage, user, isLoading, wrote, ops>>

\* the calls of the helpers: extractResponseData(value, kind),
\* validateRequired(value, fields), safeX(value, fallback)
HelperCall(fn, value, kind, fields, fallback) ==
  [fn |-> fn, value |-> value, kind |-> kind, fields |-> fields, fallback |-> fallback]
Bodies ==
  {Null, Undefined, U1, Wrapped(U1), Wrapped(Null), Str("ok"), Str(""),
   Wrapped(Str("ok")), Num(0), Wrapped(Num(0)), Arr(<<U1>>), Wrapped(Arr(<<>>))}
Responses == {Undefined, Null, U1} \cup {Response(body) : body \in Bodies}
ExtractCalls ==
  {HelperCall("extractResponseData", response, kind, {}, Undefined) :
     response \in Responses, kind \in {"", "object", "string"}}
FieldValues == {Undefined, Null, Str(""), Str("x"), Num(1), Num(0), Bool(FALSE)}
ValidateCalls ==
  {HelperCall("validateRequired", Obj({<<"a", a>>, <<"b", b>>}), "", fields, Undefined) :
     a \in FieldValues, b \in FieldValues, fields \in {{"a", "b"}, {"a"}}}
  \cup {HelperCall("validateRequired", obj, "", {"a", "b"}, Undefined) :
          obj \in {Null, Undefined, Str("s"), Obj({}), Obj({<<"b", Num(1)>>})}}
Values ==
  {Undefined, Null, Str(""), Str("x"), Str("12"), Str("12abc"), Str("true"), Str("TRUE"),
   Num(0), Num(12), NaN, Bool(TRUE), Bool(FALSE), U1, Arr(<<>>), Arr(<<Num(1)>>)}
Fallbacks(fn) ==
  CASE fn = "safeString" -> {Str("fb")}
    [] fn = "safeNumber" -> {Num(7)}
    [] fn = "safeBoolean" -> {Bool(TRUE), Bool(FALSE)}
    [] fn = "safeArray" -> {Arr(<<Str("fb")>>)}
CoalesceCalls ==
  UNION {{HelperCall(fn, value, "", {}, fallback) :
            value \in Values, fallback \in Fallbacks(fn)} :
         fn \in {"safeString", "safeNumber", "safeBoolean", "safeArray"}}

HelperInit ==
  /\ storage \in {[auth_token |-> Null, user_data |-> Null]}
  /\ user = Null
  /\ isLoading = TRUE
  /\ pc = [p \in Procs |-> IF p = "helper" THEN "called"
                           ELSE IF p = "start" THEN "getToken" ELSE "idle"]
  /\ \E call \in ExtractCalls \cup ValidateCalls \cup CoalesceCalls :
       loc = [p \in Procs |-> IF p = "retry" THEN RetryInit
                              ELSE IF p = "helper" THEN [LocInit EXCEPT !.arg = call]
                              ELSE LocInit]
  /\ wrote = [p \in AuthOps |-> {}]
  /\ ops = 0
  /\ ev = NoEvent

\* the helper has returned val, or thrown err
HelperReturns(val, err) ==
  /\ loc' = [loc EXCEPT !["helper"].val = val, !["helper"].err = err]
  /\ Goto("helper", IF err = NoError THEN "returned" ELSE "threw")
  /\ ev' = NoEvent
  /\ UNCHANGED <<storage, user, isLoading, wrote, ops>>

ExtractApply ==
  /\ pc["helper"] = "called"
  /\ loc["helper"].arg.fn = "extractResponseData"
  /\ LET call == loc["helper"].arg
         data == extractResponseData(call.value, call.kind)
     IN  HelperReturns(data.v, IF data.ok THEN NoError ELSE ValidationError)

\* mutant: every falsy field counts as missing
ValidateApplyFalsy ==
  /\ pc["helper"] = "called"
  /\ loc["helper"].arg.fn = "validateRequired"
  /\ LET call == loc["helper"].arg
     IN  IF ~Truthy(call.value) \/ TypeOf(call.value) # "object"
         THEN HelperReturns({}, ValidationError)
         ELSE LET missing == {f \in call.fields : ~Truthy(Get(call.value, f))}
              IN  HelperReturns(missing, IF missing = {} THEN NoError ELSE ValidationError)

\* val: the field names the message of the ValidationError lists
ValidateApply ==
  /\ pc["helper"] = "called"
  /\ loc["helper"].arg.fn = "validateRequired"
  /\ LET call == loc["helper"].arg
     IN  IF validateRequired(call.value, call.fields)
         THEN HelperReturns({}, NoError)
         ELSE HelperReturns(IF ~Truthy(call.value) \/ TypeOf(call.value) # "object"
                            THEN {} ELSE missingFields(call.value, call.fields),
                            ValidationError)

CoalesceApply ==
  /\ pc["helper"] = "called"
  /\ LET call == loc["helper"].arg
     IN  CASE call.fn = "safeString" ->
                HelperReturns(safeString(call.value, call.fallback), NoError)
           [] call.fn = "safeNumber" ->
                HelperReturns(safeNumber(call.value, call.fallback), NoError)
           [] call.fn = "safeBoolean" ->
                HelperReturns(safeBoolean(call.value, call.fallback), NoError)
           [] call.fn = "safeArray" ->
                HelperReturns(safeArray(call.value, call.fallback), NoError)
           [] OTHER -> FALSE

MaxRetriesBound == 3
baseDelay == 1000
\* what an operation given to withRetry may throw; the last is not an Error
ThrownValues ==
  {NetworkError, ServerError(500), AppError(""), ValidationError, AuthenticationError,
   Str("boom")}
RECURSIVE Pow2(_)
Pow2(n) == IF n = 0 THEN 1 ELSE 2 * Pow2(n - 1)

\* withRetry(operation, maxRetries): attempt = 0, the operation is invoked
WithRetryCall(maxRetries) ==
  /\ pc["retry"] = "idle"
  /\ loc' = [loc EXCEPT !["retry"] =
               [RetryInit EXCEPT !.maxRetries = maxRetries, !.calls = 1,
                                 !.result = "pending"]]
  /\ Goto("retry", "op")
  /\ ev' = NoEvent
  /\ UNCHANGED <<storage, user, isLoading, wrote, ops>>

\* return await operation()
OperationResolves ==
  /\ pc["retry"] = "op"
  /\ loc' = [loc EXCEPT !["retry"].result = "resolved"]
  /\ Goto("retry", "done")
  /\ ev' = [NoEvent EXCEPT !.proc = "retry", !.res = "resolved"]
  /\ UNCHANGED <<storage, user, isLoading, wrote, ops>>

\* mutant: every error is retried
OperationThrowsRetriesAll(error) ==
  /\ pc["retry"] = "op"
  /\ LET r == loc["retry"]
         lastError == IF "name" \in DOMAIN error THEN error ELSE Err("Error", "", 0, 0)
     IN  IF r.attempt = r.maxRetries
         THEN /\ loc' = [loc EXCEPT !["retry"].lastError = lastError,
                                    !["retry"].thrown = Append(@, error),
                                    !["retry"].result = "rejected"]
              /\ Goto("retry", "done")
              /\ ev' = [NoEvent EXCEPT !.proc = "retry", !.res = "rejected",
                                       !.err = lastError]
         ELSE /\ loc' = [loc EXCEPT !["retry"].lastError = lastError,
                                    !["retry"].thrown = Append(@, error),
                                    !["retry"].delay = baseDelay * Pow2(r.attempt),
                                    !["retry"].delays =
                                      Append(@, baseDelay * Pow2(r.attempt))]
              /\ Goto("retry", "delay")
              /\ ev' = NoEvent
  /\ UNCHANGED <<storage, user, isLoading, wrote, ops>>

\* mutant: the loop gives up one attempt later
OperationThrowsOneMore(error) ==
  /\ pc["retry"] = "op"
  /\ LET r == loc["retry"]
         lastError == IF "name" \in DOMAIN error THEN error ELSE Err("Error", "", 0, 0)
     IN  IF \/ r.attempt = r.maxRetries + 1
            \/ lastError.name \in {"AuthenticationError", "ValidationError"}
         THEN /\ loc' = [loc EXCEPT !["retry"].lastError = lastError,
                                    !["retry"].thrown = Append(@, error),
                                    !["retry"].result = "rejected"]
              /\ Goto("retry", "done")
              /\ ev' = [NoEvent EXCEPT !.proc = "retry", !.res = "rejected",
                                       !.err = lastError]
         ELSE /\ loc' = [loc EXCEPT !["retry"].lastError = lastError,
                                    !["retry"].thrown = Append(@, error),
                                    !["retry"].delay = baseDelay * Pow2(r.attempt),
                                    !["retry"].delays =
                                      Append(@, baseDelay * Pow2(r.attempt))]
              /\ Goto("retry", "delay")
              /\ ev' = NoEvent
  /\ UNCHANGED <<storage, user, isLoading, wrote, ops>>

\* mutant: the same wait before every retry
OperationThrowsFixedDelay(error) ==
  /\ pc["retry"] = "op"
  /\ LET r == loc["retry"]
         lastError == IF "name" \in DOMAIN error THEN error ELSE Err("Error", "", 0, 0)
     IN  IF \/ r.attempt = r.maxRetries
            \/ lastError.name \in {"AuthenticationError", "ValidationError"}
         THEN /\ loc' = [loc EXCEPT !["retry"].lastError = lastError,
                                    !["retry"].thrown = Append(@, error),
                                    !["retry"].result = "rejected"]
              /\ Goto("retry", "done")
              /\ ev' = [NoEvent EXCEPT !.proc = "retry", !.res = "rejected",
                                       !.err = lastError]
         ELSE /\ loc' = [loc EXCEPT !["retry"].lastError = lastError,
                                    !["retry"].thrown = Append(@, error),
                                    !["retry"].delay = baseDelay,
                                    !["retry"].delays =
                                      Append(@, baseDelay)]
              /\ Goto("retry", "delay")
              /\ ev' = NoEvent
  /\ UNCHANGED <<storage, user, isLoading, wrote, ops>>

\* the operation rejects: the catch block of the loop
OperationThrows(error) ==
  /\ pc["retry"] = "op"
  /\ LET r == loc["retry"]
         lastError == IF "name" \in DOMAIN error THEN error ELSE Err("Error", "", 0, 0)
     IN  IF \/ r.attempt = r.maxRetries
            \/ lastError.name \in {"AuthenticationError", "ValidationError"}
         THEN /\ loc' = [loc EXCEPT !["retry"].lastError = lastError,
                                    !["retry"].thrown = Append(@, error),
                                    !["retry"].result = "rejected"]
              /\ Goto("retry", "done")
              /\ ev' = [NoEvent EXCEPT !.proc = "retry", !.res = "rejected",
                                       !.err = lastError]
         ELSE /\ loc' = [loc EXCEPT !["retry"].lastError = lastError,
                                    !["retry"].thrown = Append(@, error),
                                    !["retry"].delay = baseDelay * Pow2(r.attempt),
                                    !["retry"].delays =
                                      Append(@, baseDelay * Pow2(r.attempt))]
              /\ Goto("retry", "delay")
              /\ ev' = NoEvent
  /\ UNCHANGED <<storage, user, isLoading, wrote, ops>>

\* the timer fires: attempt++, the operation is invoked again
DelayElapsed ==
  /\ pc["retry"] = "delay"
  /\ loc' = [loc EXCEPT !["retry"].attempt = @ + 1, !["retry"].calls = @ + 1,
                        !["retry"].delay = 0]
  /\ Goto("retry", "op")
  /\ ev' = NoEvent
  /\ UNCHANGED <<storage, user, isLoading, wrote, ops>>

(***************************************************************************)
(* Specifications.                                                         *)
(***************************************************************************)
\* the steps of checkAuthState that need no failure of the store
StartStep ==
  \/ StartGetToken \/ StartGetUser \/ StartVerified \/ StartSaveUser
  \/ StartCatch \/ StartFinally
  \/ \E body \in MeBodies : MeResponse(body)
  \/ LogoutRemoveToken("start") \/ LogoutRemoveUser("start") \/ LogoutReturn("start")

\* the steps of the operations the UI starts, the store never failing
OpStep(authBodies) ==
  \/ \E p \in AuthOps :
       \/ \E body \in authBodies : LoginResponse(p, body)
       \/ LoginPersist(p) \/ LoginReturn(p) \/ LoginThrow(p)
  \/ LogoutRemoveToken("logout") \/ LogoutRemoveUser("logout") \/ LogoutReturn("logout")
  \/ \E body \in ProfileBodies : UpdateResponse(body)
  \/ UpdateSaveUser \/ UpdateReturn \/ UpdateThrow
  \/ \E body \in OtherBodies : ApiResponse(body)
  \/ ApiThrow

Network ==
  \E p \in Procs :
    \/ \E e \in HttpFailures : HttpFail(p, e)
    \/ Interceptor401Token(p) \/ Interceptor401User(p)

OpStart ==
  \/ \E credentials \in LoginRequests : LoginStart("login", credentials)
  \/ \E userData \in RegisterRequests : LoginStart("register", userData)
  \/ LogoutStart
  \/ \E userData \in ProfileUpdates : UpdateStart(userData)
  \/ ApiStart

\* AsyncStorage rejecting a call
StoreFails ==
  \/ \E p \in Procs : Interceptor401Fails(p)
  \/ \E p \in AuthOps : LoginPersistFails(p)
  \/ \E p \in {"logout", "start"} : LogoutRemoveFails(p)
  \/ StartGetItemFails \/ StartSaveFails \/ UpdateSaveFails

Next == StartStep \/ OpStep(AuthBodies) \/ Network \/ OpStart \/ StoreFails
Spec == Init /\ [][Next]_vars

\* the event loop runs every continuation that is ready, and every request is
\* answered or times out (axios timeout: config.API_TIMEOUT)
StartAnswered ==
  \/ \E e \in HttpFailures : HttpFail("start", e)
  \/ Interceptor401Token("start") \/ Interceptor401User("start")

\* one operation at a time, the store never failing, the store as the app left it
QuietNext ==
  \/ StartStep \/ OpStep(AuthBodies) \/ Network
  \/ AllIdle /\ OpStart
QuietSpec == InitWith(CleanStores) /\ [][QuietNext]_vars

\* one operation at a time, over any store, the store failing at will; the
\* steps of checkAuthState are taken when they can be
LiveNext == QuietNext \/ StoreFails
LiveSpec == Init /\ [][LiveNext]_vars /\ WF_vars(StartStep \/ StartAnswered)
\* one login and one logout, the logout called while the login is in flight;
\* the store never fails and the server answers a login with token and profile
RaceNext ==
  \/ StartStep \/ Network
  \/ ops = 0 /\ LoginStart("login", ValidCredentials)
  \/ ops = 1 /\ ~Idle("login") /\ LogoutStart
  \/ \E body \in WellFormedAuth : LoginResponse("login", body)
  \/ LoginPersist("login") \/ LoginReturn("login") \/ LoginThrow("login")
  \/ LogoutRemoveToken("logout") \/ LogoutRemoveUser("logout") \/ LogoutReturn("logout")
RaceSpec == InitWith(CleanStores) /\ [][RaceNext]_vars

\* the change-password screen, open while the app starts
ScreenNext ==
  \/ StartStep \/ Network
  \/ \E data \in PasswordForms : PasswordSubmit(data)
  \/ PasswordSettle
ScreenSpec == InitWith(CleanStores) /\ [][ScreenNext]_vars

\* a catch block classifies the failure it holds
ClassifyNext == ClassifyMap \/ ClassifyType
ClassifySpec == ClassifyInit /\ [][ClassifyNext]_vars

\* one call of a helper, the arguments drawn at the start
HelperNext == ExtractApply \/ ValidateApply \/ CoalesceApply
HelperSpec == HelperInit /\ [][HelperNext]_vars

\* one call of withRetry; the operation settles each time it is invoked and the
\* timer of the backoff fires
RetryNext ==
  \/ \E maxRetries \in 0..MaxRetriesBound : WithRetryCall(maxRetries)
  \/ OperationResolves
  \/ \E error \in ThrownValues : OperationThrows(error)
  \/ DelayElapsed
RetrySpec == InitWith(CleanStores) /\ [][RetryNext]_vars /\ WF_vars(RetryNext)

\* operations overlapping two at a time, the store never failing
OverlapNext == StartStep \/ OpStep(AuthBodies) \/ Network \/ OpStart
OverlapSpec == InitWith(CleanStores) /\ [][OverlapNext]_vars

(***************************************************************************)
(* The claims.                                                             *)
(***************************************************************************)
BothPersisted == Present(AUTH_TOKEN) /\ Present(USER_DATA)
NonePersisted == ~Present(AUTH_TOKEN) /\ ~Present(USER_DATA)

\* C1: whenever no session operation is in flight, auth_token is persisted iff
\* user_data is persisted iff the in-memory user is non-null.
C1_SessionFactsAgree ==
  AllIdle => /\ Present(AUTH_TOKEN) <=> Present(USER_DATA)
             /\ Present(USER_DATA) <=> isAuthenticated

\* C2: when an authenticated call (updateProfile, any other call with the bearer
\* token, the startup profile check) has been answered 401 and has settled, both
\* keys are removed and the in-memory user is cleared.
C2_Any401EndsSession ==
  (ev.proc \in {"update", "api", "start"} /\ ev.http = 401)
    => NonePersisted /\ ~isAuthenticated

\* C3: with one operation at a time, when login/register resolves both keys are
\* persisted, and when logout returns both are absent and the user is null.
C3_LoginThenLogout ==
  /\ (ev.proc \in AuthOps /\ ev.res = "resolved") => BothPersisted
  /\ ev.proc = "logout" => NonePersisted /\ user = Null
\* the logout of a session that a login of this run created is under way
C3_Witness ==
  /\ pc["logout"] = "lo_token"
  /\ storage[AUTH_TOKEN] = NewToken /\ Present(USER_DATA) /\ user = U1

\* C4: logout never rejects, whatever the removeItem calls do, and the in-memory
\* user is null when it returns.
C4_LogoutNeverThrows ==
  ev.proc = "logout" => ev.res = "resolved" /\ user = Null
\* a logout one of whose removals was rejected has returned
C4_Witness == ev.proc = "logout" /\ ev.res = "resolved" /\ ev.err = StorageError

\* C5: whenever logout returns, auth_token and user_data are both absent from the
\* store, also when a removal was rejected.
C5_LogoutClearsStore == ev.proc = "logout" => NonePersisted

\* C6: a startup check that found token and profile and whose GET /auth/me was
\* answered 401 ends with the user null, isLoading false and both keys removed.
C6_Startup401Unauthenticated ==
  (ev.proc = "start" /\ ev.http = 401) => user = Null /\ ~isLoading /\ NonePersisted
C6_Witness == ev.proc = "start" /\ ev.http = 401 /\ pc["start"] = "done"

\* what login, register and updateProfile store under user_data
WrittenProfiles == {Text(JSONstringify(u)) : u \in {U1, U2}}
\* C7: while the startup verification is in flight over a token and a user_data
\* written by login/register/updateProfile, the in-memory user is the persisted
\* profile and isAuthenticated is true.
C7_OptimisticProfile ==
  (pc["start"] = "net" /\ Present(AUTH_TOKEN) /\ storage[USER_DATA] \in WrittenProfiles)
    => isAuthenticated /\ user = JSONparse(storage[USER_DATA].j).v

\* C8: every startup check ends: checkAuthState finishes with isLoading false.
C8_StartupDecides == <>(pc["start"] = "done" /\ ~isLoading)
\* a check that went through a failure of the store has finished
C8_Witness ==
  ev.proc = "start" /\ ev.err = StorageError /\ pc["start"] = "done" /\ ~isLoading

\* C9: a login/register in flight has written user_data only after auth_token, so
\* the store never holds its user_data without an auth_token.
C9_TokenFirst ==
  \A p \in AuthOps :
    USER_DATA \in wrote[p] => AUTH_TOKEN \in wrote[p] /\ Present(AUTH_TOKEN)
\* between the two writes: the new token is stored, no profile yet
C9_Witness ==
  /\ wrote["login"] = {AUTH_TOKEN}
  /\ storage[AUTH_TOKEN] = NewToken /\ ~Present(USER_DATA)

\* C10: once a login and a logout that ran concurrently have both completed, the
\* in-memory user is non-null iff both keys are persisted.  (Under RaceSpec,
\* ops = 2 says the login and the logout called during it were both started.)
C10_RaceFree ==
  (AllIdle /\ ops = 2) => (isAuthenticated <=> BothPersisted)

\* C11: when a profile fetch (the startup check) or a profile update that was in
\* flight while a logout returned later resolves on a 2xx answer, the in-memory
\* user is not set and user_data is not written back.
C11_LogoutWins ==
  (/\ ev.proc \in {"start", "update"} /\ ev.res = "resolved"
   /\ ev.http = 200 /\ ev.err = NoError /\ ev.stale)
    => ~isAuthenticated /\ ~Present(USER_DATA)

\* a field of the argument that is missing or empty
Blank(arg, f) == OptGet(arg, f) \in {Undefined, Null, Str("")}
\* C12: a login with a blank email or password, and a register with a blank
\* name, email or password, is rejected with an error of type VALIDATION, and
\* has sent no request and written nothing to the store.
C12_BlankFieldsRejected ==
  \A p \in AuthOps :
    (/\ ev.proc = p
     /\ \E f \in (IF p = "login" THEN {"email", "password"}
                   ELSE {"name", "email", "password"}) : Blank(ev.arg, f))
      => /\ ev.res = "rejected" /\ getErrorType(ev.err) = "VALIDATION"
         /\ ~ev.sent /\ ev.wrote = {}

\* C13: the error the caller of an ApiService method observes is the class of
\* the failure of its request: 401 gives AUTHENTICATION, 400 and 409 give
\* VALIDATION, 5xx gives SERVER, and NETWORK is observed only when the request
\* got no HTTP response.  (A request that was sent and not answered 2xx.)
C13_OriginalClassObserved ==
  (/\ ev.proc \in {"login", "register", "update", "api"} /\ ev.res = "rejected"
   /\ ev.sent /\ ev.http # 200)
    => /\ ev.http = 401 => getErrorType(ev.err) = "AUTHENTICATION"
       /\ ev.http \in {400, 409} => getErrorType(ev.err) = "VALIDATION"
       /\ ev.http \in 500..599 => getErrorType(ev.err) = "SERVER"
       /\ getErrorType(ev.err) = "NETWORK" => ev.http = 0

\* the lower-cased, trimmed form of the addresses the callers pass
NormalizedEmail(s) == IF s = "USER@X.com " THEN "user@x.com" ELSE s
\* C14: while the request of a login is in flight, the email in its body is the
\* lower-cased, trimmed form of the email that was passed to login.
C14_EmailNormalized ==
  (pc["login"] = "net" /\ loc["login"].sent)
    => Get(loc["login"].body, "email")
         = Str(NormalizedEmail(Get(loc["login"].arg, "email").s))

\* C15: an updateProfile whose partial update is null, undefined or has no field
\* is rejected with an error of type VALIDATION and has sent no request.  (That
\* it leaves user_data and the in-memory user as they were is the UNCHANGED of
\* the two steps such a call takes.)
C15_EmptyUpdateRejected ==
  (ev.proc = "update" /\ (IsNullish(ev.arg) \/ Keys(ev.arg) = {}))
    => ev.res = "rejected" /\ getErrorType(ev.err) = "VALIDATION" /\ ~ev.sent

\* C16: when an updateProfile resolves, the in-memory user is a profile the
\* server returned, user_data parses to that same object, and auth_token is
\* still the token the request carried: the session stays authenticated.
C16_UpdateRoundTrip ==
  (ev.proc = "update" /\ ev.res = "resolved")
    => /\ Wrapped(user) \in ProfileBodies
       /\ Present(USER_DATA)
       /\ JSONparse(storage[USER_DATA].j) = [ok |-> TRUE, v |-> user]
       /\ Present(AUTH_TOKEN) /\ storage[AUTH_TOKEN] = ev.auth
       /\ isAuthenticated
\* an update of the session the app started with has resolved
C16_Witness ==
  /\ ev.proc = "update" /\ ev.res = "resolved"
  /\ user = U2 /\ storage[AUTH_TOKEN] = OldToken

\* C17: no request of the change-password screen is sent, or was sent, with a
\* new password shorter than 6 characters, whatever the current password.
C17_ShortPasswordNotSent ==
  /\ loc["password"].sent => Len(Get(loc["password"].arg, "newPassword").s) >= 6
  /\ (ev.proc = "password" /\ ev.sent) => Len(Get(ev.arg, "newPassword").s) >= 6
\* a form with a new password of 5 characters was submitted and the handler
\* returned with no request sent
C17_Witness ==
  /\ ev.proc = "password" /\ ~ev.sent /\ pc["password"] = "idle"
  /\ ev.arg = PasswordForm("secret", "12345")

\* the variant the error table gives a raw failure
TableVariant(raw) ==
  IF raw.response = 0
  THEN IF raw.code = "ECONNABORTED" THEN "TIMEOUT" ELSE "NETWORK"
  ELSE CASE raw.response \in {400, 409} -> "VALIDATION"
         [] raw.response = 401 -> "AUTHENTICATION"
         [] raw.response = 403 -> "AUTHORIZATION"
         [] raw.response = 404 -> "NOT_FOUND"
         [] raw.response = 429 -> "RATE_LIMIT"
         [] raw.response \in {500, 502, 503, 504} -> "SERVER"
         [] OTHER -> "UNKNOWN"
\* C18: the type getErrorType gives the error mapAxiosError made of a raw
\* failure is the variant of the table, and a SERVER error carries the status.
C18_ClassifyTable ==
  pc["classify"] = "typed"
    => /\ loc["classify"].val = Str(TableVariant(loc["classify"].arg))
       /\ TableVariant(loc["classify"].arg) = "SERVER"
            => loc["classify"].err.statusCode = loc["classify"].arg.response

NonTransient(error) ==
  "name" \in DOMAIN error /\ error.name \in {"AuthenticationError", "ValidationError"}
\* C19: once the operation has thrown an AuthenticationError or a
\* ValidationError, withRetry has rejected with that error and the operation
\* is not invoked again: that throw is the last invocation.
C19_NonTransientNotRetried ==
  LET r == loc["retry"]
  IN  \A i \in 1..Len(r.thrown) :
        NonTransient(r.thrown[i])
          => /\ i = r.calls
             /\ pc["retry"] = "done" /\ r.result = "rejected"
             /\ r.lastError = r.thrown[i]
\* with maxRetries = 3, an operation that threw AuthenticationError at its first
\* invocation: withRetry has rejected after one call
C19_Witness ==
  /\ pc["retry"] = "done" /\ loc["retry"].maxRetries = 3
  /\ loc["retry"].thrown = <<AuthenticationError>> /\ loc["retry"].calls = 1

\* C20: the operation is never invoked more than maxRetries + 1 times; when
\* every invocation has thrown a retryable error, withRetry rejects after
\* exactly maxRetries + 1 invocations with the error of the last one; and a
\* call of withRetry ends.
C20_RetriesExhausted ==
  LET r == loc["retry"]
      last == r.thrown[Len(r.thrown)]
  IN  /\ [](/\ r.calls <= r.maxRetries + 1
            /\ (/\ pc["retry"] = "done" /\ r.result = "rejected"
                /\ \A i \in 1..Len(r.thrown) : ~NonTransient(r.thrown[i]))
                 => /\ r.calls = r.maxRetries + 1 /\ Len(r.thrown) = r.calls
                    /\ "name" \in DOMAIN last => r.lastError = last)
      /\ (pc["retry"] # "idle" ~> pc["retry"] = "done")
\* with maxRetries = 2, three invocations threw NetworkError, ServerError,
\* NetworkError and withRetry has rejected with the last
C20_Witness ==
  /\ pc["retry"] = "done" /\ loc["retry"].maxRetries = 2 /\ loc["retry"].calls = 3
  /\ loc["retry"].thrown = <<NetworkError, ServerError(500), NetworkError>>
  /\ loc["retry"].lastError = NetworkError

\* C21: when withRetry resolves after the operation threw k times, the
\* operation was invoked exactly k + 1 times, with k <= maxRetries; the waits
\* it has set are 1000, 2000, 4000, ... (baseDelay * 2^attempt), each longer
\* than the one before.
C21_BackoffThenSuccess ==
  LET r == loc["retry"]
  IN  /\ (pc["retry"] = "done" /\ r.result = "resolved")
           => r.calls = Len(r.thrown) + 1 /\ Len(r.thrown) <= r.maxRetries
      /\ Len(r.delays) > 0 => r.delays[1] = 1000
      /\ \A i \in 1..(Len(r.delays) - 1) :
           r.delays[i + 1] = 2 * r.delays[i] /\ r.delays[i] < r.delays[i + 1]
\* maxRetries = 3, two ServerErrors and then success: three invocations
C21_Witness ==
  /\ pc["retry"] = "done" /\ loc["retry"].result = "resolved"
  /\ loc["retry"].maxRetries = 3 /\ loc["retry"].calls = 3
  /\ loc["retry"].thrown = <<ServerError(500), ServerError(500)>>
  /\ loc["retry"].delays = <<1000, 2000>>

\* the payload of a response: response.data.data when response.data has a data
\* field, else response.data
Payload(response) ==
  LET d == OptGet(response, "data")
  IN  IF IsObject(d) /\ "data" \in Keys(d) THEN Get(d, "data") ELSE d
\* C22: extractResponseData returns the innermost payload, and throws a
\* ValidationError when the response is absent, the payload is absent, or a
\* kind is given and is not the payload's typeof; it never returns the
\* response itself for an absent payload.
C22_InnermostPayload ==
  LET call == loc["helper"].arg
      h == loc["helper"]
  IN  (pc["helper"] \in {"returned", "threw"} /\ call.fn = "extractResponseData"
       /\ (IsNullish(call.value) \/ "data" \in Keys(call.value)))
        => IF \/ IsNullish(call.value) \/ IsNullish(Payload(call.value))
              \/ call.kind # "" /\ TypeOf(Payload(call.value)) # call.kind
           THEN pc["helper"] = "threw" /\ getErrorType(h.err) = "VALIDATION"
           ELSE pc["helper"] = "returned" /\ h.val = Payload(call.value)

\* C23: on an object, validateRequired returns iff no required field is null,
\* undefined or the empty string, and otherwise throws a ValidationError that
\* names exactly the required fields that are.
C23_ExactMissingFields ==
  LET call == loc["helper"].arg
      h == loc["helper"]
      empty == {f \in call.fields : Get(call.value, f) \in {Null, Undefined, Str("")}}
  IN  (pc["helper"] \in {"returned", "threw"} /\ call.fn = "validateRequired"
       /\ IsObject(call.value))
        => /\ pc["helper"] = "returned" <=> empty = {}
           /\ pc["helper"] = "threw"
                => getErrorType(h.err) = "VALIDATION" /\ h.val = empty
\* ({a: "", b: 1}, [a, b]) has thrown, naming a alone
C23_Witness ==
  /\ pc["helper"] = "threw"
  /\ loc["helper"].arg =
       HelperCall("validateRequired", Obj({<<"a", Str("")>>, <<"b", Num(1)>>}), "",
                  {"a", "b"}, Undefined)
  /\ loc["helper"].val = {"a"}

\* C24: a coalesce accessor returns its input when the input has the target
\* type, the fallback otherwise, with two conversions only: safeNumber parses a
\* numeric string and safeString stringifies a value that is not null or
\* undefined.
C24_CoalesceOrFallback ==
  LET call == loc["helper"].arg
      h == loc["helper"]
      v == call.value
  IN  pc["helper"] = "returned" =>
        CASE call.fn = "safeString" ->
               h.val = IF v.t = "string" THEN v
                       ELSE IF IsNullish(v) THEN call.fallback
                       ELSE Str(StringOf(v))
          [] call.fn = "safeNumber" ->
               h.val = IF v.t = "number" /\ ~IsNaN(v) THEN v
                       ELSE IF v \in {Str("12"), Str("0")} THEN parseFloat(v.s)
                       ELSE call.fallback
          [] call.fn = "safeBoolean" ->
               h.val = IF v.t = "boolean" THEN v ELSE call.fallback
          [] call.fn = "safeArray" ->
               h.val = IF v.t = "array" THEN v ELSE call.fallback
          [] OTHER -> TRUE
\* C24 as the code has it: safeBoolean also reads a string as true iff it is
\* "true" in any case and a number as true iff it is not 0; safeArray wraps a
\* value that is no array and not null or undefined in a one-element array;
\* safeNumber gives a string the number parseFloat reads at its start.
C24_CoalesceAsCoded ==
  LET call == loc["helper"].arg
      h == loc["helper"]
      v == call.value
  IN  pc["helper"] = "returned" =>
        CASE call.fn = "safeString" ->
               h.val = IF v.t = "string" THEN v
                       ELSE IF IsNullish(v) THEN call.fallback
                       ELSE Str(StringOf(v))
          [] call.fn = "safeNumber" ->
               h.val = IF v.t = "number" /\ ~IsNaN(v) THEN v
                       ELSE IF v \in {Str("12"), Str("12abc")} THEN Num(12)
                       ELSE IF v = Str("0") THEN Num(0)
                       ELSE call.fallback
          [] call.fn = "safeBoolean" ->
               h.val = IF v.t = "boolean" THEN v
                       ELSE IF v \in {Str("true"), Str("TRUE")} THEN Bool(TRUE)
                       ELSE IF v.t = "string" THEN Bool(FALSE)
                       ELSE IF v.t = "number" THEN Bool(v # Num(0))
                       ELSE call.fallback
          [] call.fn = "safeArray" ->
               h.val = IF v.t = "array" THEN v
                       ELSE IF IsNullish(v) THEN call.fallback
                       ELSE Arr(<<v>>)
          [] OTHER -> TRUE
\* safeBoolean("TRUE", false) has returned true
C24_Witness ==
  /\ pc["helper"] = "returned"
  /\ loc["helper"].arg = HelperCall("safeBoolean", Str("TRUE"), "", {}, Bool(FALSE))
  /\ loc["helper"].val = Bool(TRUE)

\* C25: a request is re-issued at most 2 times, and the NetworkError of a request
\* that got no HTTP response is rejected to the caller only after 2 retries.
C25_NetworkRetried ==
  \A p \in Procs \ ErrorOps :
    /\ loc[p].retryCount <= 2
    /\ (pc[p] = "threw" /\ loc[p].sent /\ loc[p].http = 0 /\ loc[p].err = NetworkError)
         => loc[p].retryCount = 2

\* C26: the store never holds user_data without auth_token.
C26_ProfileImpliesToken == Present(USER_DATA) => Present(AUTH_TOKEN)

\* C27: no step on the failure path of a login or register (its validation
\* failing, its request failing, the 401 handling, the rejection), taken with no
\* other operation in flight, changes auth_token, user_data or the in-memory user.
C27_FailedLoginFrame ==
  [][\A p \in AuthOps :
       (\/ pc[p] \in {"i401_token", "i401_user", "threw"}
        \/ pc'[p] \in {"i401_token", "i401_user", "threw"})
         => storage' = storage /\ user' = user]_vars

\* C28: when login or register resolves, the in-memory user is non-null
\* (isAuthenticated) and auth_token is persisted.
C28_ResolvedIsAuthenticated ==
  (ev.proc \in AuthOps /\ ev.res = "resolved") => isAuthenticated /\ Present(AUTH_TOKEN)

\* C29: a startup check that found token and profile and whose verification
\* failed (no 2xx answer carrying a profile object) ends with the user null and
\* both keys removed.
C29_StartupAnyFailure ==
  (/\ ev.proc = "start" /\ ev.sent
   /\ ~(ev.http = 200 /\ IsObject(Payload(Response(ev.resp)))))
    => user = Null /\ NonePersisted

\* C30: isLoading is true whenever a login or register is in flight.
C30_LoadingWhileInFlight == \A p \in AuthOps : ~Idle(p) => isLoading
====
